---- MODULE Spec2Model ----
(***************************************************************************)
(* A model of usgs_quakes_mm.py: the ray-casting predicates                *)
(* (point_in_ring, point_in_polygon, point_in_multipolygon) and main(),    *)
(* which loads the admin boundary, computes its bounding box, pages        *)
(* through the USGS event query, filters the events by the boundary and    *)
(* writes the result file.                                                 *)
(*                                                                         *)
(* Coordinates are integers.  On integers of this size the float           *)
(* expression (x2 - x1) * (y - y1) / (y2 - y1) + x1 of point_in_ring is    *)
(* either exact or lies strictly between two integers, so comparing an     *)
(* integer x with it gives the same answer as the exact rational           *)
(* comparison used here.                                                   *)
(***************************************************************************)
EXTENDS Integers, Sequences, FiniteSets

VARIABLES
    \* ---- main() ----
    pc,            \* position in main(): "off", "load", "bbox", "fetch",
                   \* "filter", "write", "done", "failed"
    exists,        \* admin_path.exists()
    doc,           \* data.get('features', []): the boundary document's features
    source,        \* the events the USGS service holds for the query, time-asc
    polygons,      \* polygons
    bbox,          \* <<min_lon, max_lon, min_lat, max_lat>>, <<>> before step 2
    offset,        \* offset
    all_features,  \* all_features
    requests,      \* the offsets of the requests issued so far, in order
    filtered,      \* filtered
    idx,           \* number of elements of all_features the filter loop has visited
    written,       \* whether the result file has been written
    out,           \* out_data (metadata count / bboxCount, features)
    error,         \* the exception main() ended with, "" when none
    \* ---- a single call of one of the predicates ----
    gpc,           \* "off", "call", "done"
    px, py,        \* the point
    shape,         \* the ring, polygon or multipolygon argument
    result         \* the returned boolean

pipeVars == <<pc, exists, doc, source, polygons, bbox, offset, all_features,
              requests, filtered, idx, written, out, error>>
geomVars == <<gpc, px, py, shape, result>>
vars == <<pipeVars, geomVars>>

----------------------------------------------------------------------------
(* Bounds of the model *)

\* longest ring drawn as point_in_ring's argument
MaxRingLen == 4
\* most rings in a polygon drawn as point_in_polygon's argument
MaxRings == 3
\* most polygons in a multipolygon drawn as point_in_multipolygon's argument
MaxPolys == 3
\* most features in the boundary document
MaxFeatures == 2
\* most events the service holds, when every payload is drawn freely
MaxEvents == 3
\* most events the service holds, when the payloads run through CandLib in turn
MaxSourceLen == 8
\* the page size: limit = 20000 in main(), scaled down
limit == 2

----------------------------------------------------------------------------
(* point_in_ring *)

\* x < (x2 - x1) * (y - y1) / (y2 - y1) + x1, for y2 # y1, in exact arithmetic
XLessThanIntersection(x, y, x1, y1, x2, y2) ==
    IF y2 - y1 > 0
    THEN (x - x1) * (y2 - y1) < (x2 - x1) * (y - y1)
    ELSE (x - x1) * (y2 - y1) > (x2 - x1) * (y - y1)

\* mutant: the ray test with <= in place of <
TogglesLeq(x, y, p1, p2) ==
    /\ (p1[2] > y) # (p2[2] > y)
    /\ IF p2[2] - p1[2] > 0
       THEN (x - p1[1]) * (p2[2] - p1[2]) <= (p2[1] - p1[1]) * (y - p1[2])
       ELSE (x - p1[1]) * (p2[2] - p1[2]) >= (p2[1] - p1[1]) * (y - p1[2])

\* mutant: the straddle test with >= in place of >
TogglesGeq(x, y, p1, p2) ==
    /\ (p1[2] >= y) # (p2[2] >= y)
    /\ XLessThanIntersection(x, y, p1[1], p1[2], p2[1], p2[2])

\* the body of the for loop: whether the edge p1 -> p2 flips `inside`
Toggles(x, y, p1, p2) ==
    /\ (p1[2] > y) # (p2[2] > y)
    /\ XLessThanIntersection(x, y, p1[1], p1[2], p2[1], p2[2])

\* the for loop from index i on (1-based), with the flag's current value
RECURSIVE RingLoop(_, _, _, _, _)
RingLoop(x, y, ring, i, inside) ==
    IF i > Len(ring) THEN inside
    ELSE RingLoop(x, y, ring, i + 1,
                  IF Toggles(x, y, ring[i], ring[(i % Len(ring)) + 1])
                  THEN ~inside ELSE inside)

point_in_ring(x, y, ring) ==
    IF Len(ring) < 3 THEN FALSE ELSE RingLoop(x, y, ring, 1, FALSE)

----------------------------------------------------------------------------
(* point_in_polygon *)

\* the loop over poly[1:], from index i on (1-based: the holes are 2..Len)
RECURSIVE HoleLoop(_, _, _, _)
HoleLoop(x, y, poly, i) ==
    IF i > Len(poly) THEN TRUE
    ELSE IF point_in_ring(x, y, poly[i]) THEN FALSE
    ELSE HoleLoop(x, y, poly, i + 1)

\* mutant: the holes are not looked at
point_in_polygon_exterior_only(x, y, poly) ==
    IF Len(poly) = 0 \/ ~point_in_ring(x, y, poly[1]) THEN FALSE ELSE TRUE

point_in_polygon(x, y, poly) ==
    IF Len(poly) = 0 \/ ~point_in_ring(x, y, poly[1]) THEN FALSE
    ELSE HoleLoop(x, y, poly, 2)

----------------------------------------------------------------------------
(* point_in_multipolygon *)

\* any(...) over multipoly from index i on: stops at the first true element
RECURSIVE AnyLoop(_, _, _, _)
AnyLoop(x, y, multipoly, i) ==
    IF i > Len(multipoly) THEN FALSE
    ELSE IF point_in_polygon(x, y, multipoly[i]) THEN TRUE
    ELSE AnyLoop(x, y, multipoly, i + 1)

\* mutant: exclusive or over the polygons instead of any()
point_in_multipolygon_xor(x, y, multipoly) ==
    Cardinality({i \in 1..Len(multipoly) :
                    point_in_polygon(x, y, multipoly[i])}) % 2 = 1

point_in_multipolygon(x, y, multipoly) == AnyLoop(x, y, multipoly, 1)

----------------------------------------------------------------------------
(* The boundary documents and event sources the model runs main() on *)

Outer == << <<0, 0>>, <<10, 0>>, <<10, 10>>, <<0, 10>> >>
Hole  == << <<4, 4>>, <<6, 4>>, <<6, 6>>, <<4, 6>> >>
SqB   == << <<8, 8>>, <<12, 8>>, <<12, 12>>, <<8, 12>> >>
SqC   == << <<20, -3>>, <<24, -3>>, <<24, 2>>, <<20, 2>> >>

\* A feature of admin0.json as main() reads it: type is geom.get('type')
\* ("None" when the feature has no geometry key or no type), coordinates is
\* geom.get('coordinates', []).  Every feature is an object whose geometry,
\* when present, is an object.
FeatureLib == <<
    [type |-> "Polygon",      coordinates |-> <<Outer, Hole>>],
    [type |-> "MultiPolygon", coordinates |-> << <<SqB>>, <<SqC>> >>],
    [type |-> "Polygon",      coordinates |-> <<Hole, SqB>>],
    [type |-> "Polygon",      coordinates |-> <<>>],
    [type |-> "Polygon",      coordinates |-> << <<>> >>],
    [type |-> "MultiPolygon", coordinates |-> <<>>],
    [type |-> "Point",        coordinates |-> <<3, 3>>],
    [type |-> "None",         coordinates |-> <<>>] >>

\* An event of the USGS response as the filter loop reads it: hasGeometry is
\* whether f.get('geometry') is truthy, hasCoordinates whether
\* geometry.get('coordinates') is not None.
CandLib == <<
    [hasGeometry |-> TRUE,  hasCoordinates |-> TRUE,  coordinates |-> <<1, 1>>],
    [hasGeometry |-> FALSE, hasCoordinates |-> FALSE, coordinates |-> <<>>],
    [hasGeometry |-> TRUE,  hasCoordinates |-> TRUE,  coordinates |-> <<5, 5, 10>>],
    [hasGeometry |-> TRUE,  hasCoordinates |-> TRUE,  coordinates |-> <<5>>],
    [hasGeometry |-> TRUE,  hasCoordinates |-> TRUE,  coordinates |-> <<9, 9, 33>>],
    [hasGeometry |-> TRUE,  hasCoordinates |-> FALSE, coordinates |-> <<>>],
    [hasGeometry |-> TRUE,  hasCoordinates |-> TRUE,  coordinates |-> <<30, 30>>],
    [hasGeometry |-> TRUE,  hasCoordinates |-> TRUE,  coordinates |-> <<>>] >>

\* the document whose features are FeatureLib[k[1]], FeatureLib[k[2]], ...
MkDoc(k) == [i \in 1..Len(k) |-> FeatureLib[k[i]]]

\* the source whose i-th event has id i and the payload CandLib[k[i]]
MkSource(k) ==
    [i \in 1..Len(k) |->
        [id |-> i,
         hasGeometry |-> CandLib[k[i]].hasGeometry,
         hasCoordinates |-> CandLib[k[i]].hasCoordinates,
         coordinates |-> CandLib[k[i]].coordinates]]

\* the sequences over 1..n of length at most m
SeqsUpTo(n, m) == UNION {[1..l -> 1..n] : l \in 0..m}

\* the source of n events whose payloads run through CandLib in turn
LongSource(n) == MkSource([i \in 1..n |-> ((i - 1) % Len(CandLib)) + 1])

\* the documents every source of at most MaxEvents events is run against
FewDocs == {<<1>>, <<1, 2>>}

----------------------------------------------------------------------------
(* main(), step 1: load the admin boundary *)

\* mutant: a MultiPolygon's coordinates are appended as one polygon
RECURSIVE ParseFeaturesAppend(_, _, _)
ParseFeaturesAppend(features, i, acc) ==
    IF i > Len(features) THEN acc
    ELSE ParseFeaturesAppend(features, i + 1,
            IF features[i].type \in {"Polygon", "MultiPolygon"}
            THEN Append(acc, features[i].coordinates)
            ELSE acc)

\* the for loop over data.get('features', []), from feature i on
RECURSIVE ParseFeatures(_, _, _)
ParseFeatures(features, i, acc) ==
    IF i > Len(features) THEN acc
    ELSE ParseFeatures(features, i + 1,
            IF features[i].type = "Polygon"
            THEN Append(acc, features[i].coordinates)
            ELSE IF features[i].type = "MultiPolygon"
            THEN acc \o features[i].coordinates
            ELSE acc)

\* admin0.json is not there: FileNotFoundError
LoadMissing ==
    /\ pc = "load"
    /\ ~exists
    /\ pc' = "failed"
    /\ error' = "FileNotFoundError"
    /\ UNCHANGED <<exists, doc, source, polygons, bbox, offset, all_features,
                   requests, filtered, idx, written, out, geomVars>>

\* the features are parsed and no polygon came out: SystemExit
LoadEmpty ==
    /\ pc = "load"
    /\ exists
    /\ Len(ParseFeatures(doc, 1, <<>>)) = 0
    /\ polygons' = ParseFeatures(doc, 1, <<>>)
    /\ pc' = "failed"
    /\ error' = "SystemExit: No polygon geometry found in admin0.json"
    /\ UNCHANGED <<exists, doc, source, bbox, offset, all_features,
                   requests, filtered, idx, written, out, geomVars>>

\* the features are parsed into a non-empty list of polygons
LoadBoundary ==
    /\ pc = "load"
    /\ exists
    /\ Len(ParseFeatures(doc, 1, <<>>)) > 0
    /\ polygons' = ParseFeatures(doc, 1, <<>>)
    /\ pc' = "bbox"
    /\ UNCHANGED <<exists, doc, source, bbox, offset, all_features,
                   requests, filtered, idx, written, out, error, geomVars>>

----------------------------------------------------------------------------
(* main(), step 2: the bounding box *)

\* [pt for ring in poly for pt in ring], from ring j of poly on
RECURSIVE PolyPts(_, _)
PolyPts(poly, j) ==
    IF j > Len(poly) THEN <<>> ELSE poly[j] \o PolyPts(poly, j + 1)

\* mutant: only the exterior ring of each polygon is read
RECURSIVE all_pts_exterior(_, _)
all_pts_exterior(polys, i) ==
    IF i > Len(polys) THEN <<>>
    ELSE (IF Len(polys[i]) = 0 THEN <<>> ELSE polys[i][1])
             \o all_pts_exterior(polys, i + 1)

\* [pt for poly in polygons for ring in poly for pt in ring], from polygon i on
RECURSIVE all_pts(_, _)
all_pts(polys, i) ==
    IF i > Len(polys) THEN <<>> ELSE PolyPts(polys[i], 1) \o all_pts(polys, i + 1)

\* min(pt[c] for pt in pts) as the builtin computes it: a running minimum
RECURSIVE MinLoop(_, _, _, _)
MinLoop(pts, c, i, best) ==
    IF i > Len(pts) THEN best
    ELSE MinLoop(pts, c, i + 1, IF pts[i][c] < best THEN pts[i][c] ELSE best)

\* max(pt[c] for pt in pts): a running maximum
RECURSIVE MaxLoop(_, _, _, _)
MaxLoop(pts, c, i, best) ==
    IF i > Len(pts) THEN best
    ELSE MaxLoop(pts, c, i + 1, IF pts[i][c] > best THEN pts[i][c] ELSE best)

\* <<min_lon, max_lon, min_lat, max_lat>> of a non-empty list of points
BBoxOf(pts) ==
    << MinLoop(pts, 1, 2, pts[1][1]), MaxLoop(pts, 1, 2, pts[1][1]),
       MinLoop(pts, 2, 2, pts[1][2]), MaxLoop(pts, 2, 2, pts[1][2]) >>

\* all_pts is empty: min() raises ValueError (empty sequence)
BBoxEmpty ==
    /\ pc = "bbox"
    /\ Len(all_pts(polygons, 1)) = 0
    /\ pc' = "failed"
    /\ error' = "ValueError: min() arg is an empty sequence"
    /\ UNCHANGED <<exists, doc, source, polygons, bbox, offset, all_features,
                   requests, filtered, idx, written, out, geomVars>>

\* the four bounds are computed, then limit / offset / all_features are set
ComputeBBox ==
    /\ pc = "bbox"
    /\ Len(all_pts(polygons, 1)) > 0
    /\ bbox' = BBoxOf(all_pts(polygons, 1))
    /\ offset' = 1
    /\ all_features' = <<>>
    /\ pc' = "fetch"
    /\ UNCHANGED <<exists, doc, source, polygons, requests, filtered, idx,
                   written, out, error, geomVars>>

----------------------------------------------------------------------------
(* main(), step 3: the paginated fetch *)

\* The service's answer to a request with orderby=time-asc, limit and a
\* 1-based offset: the events offset .. offset + limit - 1 of the matching
\* events, fewer when they run out.
ServerBatch(off) ==
    SubSeq(source, off,
           IF off + limit - 1 < Len(source) THEN off + limit - 1 ELSE Len(source))

\* mutant: offset advances by limit - 1, so pages overlap
FetchBatchOverlap ==
    /\ pc = "fetch"
    /\ requests' = Append(requests, offset)
    /\ all_features' = all_features \o ServerBatch(offset)
    /\ IF Len(ServerBatch(offset)) < limit
       THEN /\ pc' = "filter"
            /\ filtered' = <<>>
            /\ idx' = 0
            /\ UNCHANGED offset
       ELSE /\ offset' = offset + limit - 1
            /\ UNCHANGED <<pc, filtered, idx>>
    /\ UNCHANGED <<exists, doc, source, polygons, bbox, written, out, error,
                   geomVars>>

\* one iteration of the while loop: request, extend, break or advance
FetchBatch ==
    /\ pc = "fetch"
    /\ requests' = Append(requests, offset)
    /\ all_features' = all_features \o ServerBatch(offset)
    /\ IF Len(ServerBatch(offset)) < limit
       THEN /\ pc' = "filter"
            /\ filtered' = <<>>
            /\ idx' = 0
            /\ UNCHANGED offset
       ELSE /\ offset' = offset + limit
            /\ UNCHANGED <<pc, filtered, idx>>
    /\ UNCHANGED <<exists, doc, source, polygons, bbox, written, out, error,
                   geomVars>>

----------------------------------------------------------------------------
(* main(), step 4: the spatial filter *)

\* (f.get('geometry') or {}).get('coordinates') or []
CoordsOf(f) ==
    IF ~f.hasGeometry THEN <<>>
    ELSE IF ~f.hasCoordinates THEN <<>>
    ELSE f.coordinates

\* the body of the filter loop on one event: whether it is appended
Keeps(f) ==
    /\ Len(CoordsOf(f)) >= 2
    /\ point_in_multipolygon(CoordsOf(f)[1], CoordsOf(f)[2], polygons)

\* mutant: a kept event is put at the front of filtered
FilterStepPrepend ==
    /\ pc = "filter"
    /\ idx < Len(all_features)
    /\ filtered' = IF Keeps(all_features[idx + 1])
                   THEN <<all_features[idx + 1]>> \o filtered
                   ELSE filtered
    /\ idx' = idx + 1
    /\ UNCHANGED <<pc, exists, doc, source, polygons, bbox, offset,
                   all_features, requests, written, out, error, geomVars>>

\* mutant: the loop ends at the first event without two coordinates
FilterStepStop ==
    /\ pc = "filter"
    /\ idx < Len(all_features)
    /\ filtered' = IF Keeps(all_features[idx + 1])
                   THEN Append(filtered, all_features[idx + 1])
                   ELSE filtered
    /\ idx' = IF Len(CoordsOf(all_features[idx + 1])) < 2
              THEN Len(all_features) ELSE idx + 1
    /\ UNCHANGED <<pc, exists, doc, source, polygons, bbox, offset,
                   all_features, requests, written, out, error, geomVars>>

\* one iteration of the for loop over all_features
FilterStep ==
    /\ pc = "filter"
    /\ idx < Len(all_features)
    /\ filtered' = IF Keeps(all_features[idx + 1])
                   THEN Append(filtered, all_features[idx + 1])
                   ELSE filtered
    /\ idx' = idx + 1
    /\ UNCHANGED <<pc, exists, doc, source, polygons, bbox, offset,
                   all_features, requests, written, out, error, geomVars>>

----------------------------------------------------------------------------
(* main(), step 5: the result file *)

\* the loop is over: out_data is built and written
WriteOutput ==
    /\ pc = "filter"
    /\ idx = Len(all_features)
    /\ out' = [count |-> Len(filtered), bboxCount |-> Len(all_features),
               features |-> filtered]
    /\ written' = TRUE
    /\ pc' = "done"
    /\ UNCHANGED <<exists, doc, source, polygons, bbox, offset, all_features,
                   requests, filtered, idx, error, geomVars>>

----------------------------------------------------------------------------
(* main() as a whole *)

GeomIdle ==
    /\ gpc = "off"
    /\ px = 0
    /\ py = 0
    /\ shape = <<>>
    /\ result = FALSE

Init ==
    /\ GeomIdle
    /\ pc = "load"
    /\ polygons = <<>>
    /\ bbox = <<>>
    /\ offset = 0
    /\ all_features = <<>>
    /\ requests = <<>>
    /\ filtered = <<>>
    /\ idx = 0
    /\ written = FALSE
    /\ out = [count |-> 0, bboxCount |-> 0, features |-> <<>>]
    /\ error = ""
    /\ \/ /\ exists = FALSE
          /\ doc = <<>>
          /\ source = <<>>
       \/ /\ exists = TRUE
          /\ \E k \in SeqsUpTo(Len(FeatureLib), MaxFeatures) : doc = MkDoc(k)
          /\ source = LongSource(MaxEvents)
       \/ /\ exists = TRUE
          /\ \E k \in FewDocs : doc = MkDoc(k)
          /\ \E k \in SeqsUpTo(Len(CandLib), MaxEvents) : source = MkSource(k)
       \/ /\ exists = TRUE
          /\ \E k \in FewDocs \cup {<<6>>, <<4>>} : doc = MkDoc(k)
          /\ \E n \in 0..MaxSourceLen : source = LongSource(n)

Next ==
    \/ LoadMissing
    \/ LoadEmpty
    \/ LoadBoundary
    \/ BBoxEmpty
    \/ ComputeBBox
    \/ FetchBatch
    \/ FilterStep
    \/ WriteOutput

Spec == Init /\ [][Next]_vars

\* The runs the fetch loop is followed through to its end on: the documents
\* of FewDocs against sources of every length up to MaxSourceLen, a missing
\* file, a document without polygons and one without vertices.
InitFetch ==
    /\ Init
    /\ \/ ~exists
       \/ /\ \E k \in FewDocs \cup {<<6>>, <<4>>} : doc = MkDoc(k)
          /\ \E n \in 0..MaxSourceLen : source = LongSource(n)

\* main() is a sequential program: it keeps taking its next step
FairSpec == InitFetch /\ [][Next]_vars /\ WF_vars(Next)

----------------------------------------------------------------------------
(* Single calls of the predicates *)

PipeIdle ==
    /\ pc = "off"
    /\ exists = FALSE
    /\ doc = <<>>
    /\ source = <<>>
    /\ polygons = <<>>
    /\ bbox = <<>>
    /\ offset = 0
    /\ all_features = <<>>
    /\ requests = <<>>
    /\ filtered = <<>>
    /\ idx = 0
    /\ written = FALSE
    /\ out = [count |-> 0, bboxCount |-> 0, features |-> <<>>]
    /\ error = ""

\* the vertices rings are drawn from, and the points they are asked about
RingVertices == {0, 2, 4} \X {0, 3, 4}
RingQueries == (-1..5) \X (-1..5)
Rings == UNION {[1..n -> RingVertices] : n \in 0..MaxRingLen}

InitRing ==
    /\ PipeIdle
    /\ gpc = "call"
    /\ \E q \in RingQueries : px = q[1] /\ py = q[2]
    /\ shape \in Rings
    /\ result = FALSE

CallRing ==
    /\ gpc = "call"
    /\ result' = point_in_ring(px, py, shape)
    /\ gpc' = "done"
    /\ UNCHANGED <<px, py, shape, pipeVars>>

SpecRing == InitRing /\ [][CallRing]_vars

\* the rings polygons are drawn from, and the points they are asked about
Hole2      == << <<1, 7>>, <<3, 7>>, <<3, 9>>, <<1, 9>> >>
Triangle   == << <<0, 0>>, <<10, 0>>, <<0, 10>> >>
TwoPoints  == << <<0, 0>>, <<10, 10>> >>
RingLib == {Outer, Hole, Hole2, Triangle, TwoPoints, <<>>}
PolyQueries == {1, 2, 5, 8, 9, 11} \X {1, 2, 5, 8, 9, 11}
Polys == UNION {[1..n -> RingLib] : n \in 0..MaxRings}

InitPoly ==
    /\ PipeIdle
    /\ gpc = "call"
    /\ \E q \in PolyQueries : px = q[1] /\ py = q[2]
    /\ shape \in Polys
    /\ result = FALSE

CallPoly ==
    /\ gpc = "call"
    /\ result' = point_in_polygon(px, py, shape)
    /\ gpc' = "done"
    /\ UNCHANGED <<px, py, shape, pipeVars>>

SpecPoly == InitPoly /\ [][CallPoly]_vars

\* the polygons multipolygons are drawn from, and the points asked about
PolyLib == {<<Outer, Hole>>, <<SqB>>, <<SqC>>, <<Hole>>, << <<>> >>, <<>>}
MultiQueries == {1, 5, 9, 11, 22} \X {1, 5, 9, 11}
MultiPolys == UNION {[1..n -> PolyLib] : n \in 0..MaxPolys}

InitMulti ==
    /\ PipeIdle
    /\ gpc = "call"
    /\ \E q \in MultiQueries : px = q[1] /\ py = q[2]
    /\ shape \in MultiPolys
    /\ result = FALSE

CallMulti ==
    /\ gpc = "call"
    /\ result' = point_in_multipolygon(px, py, shape)
    /\ gpc' = "done"
    /\ UNCHANGED <<px, py, shape, pipeVars>>

SpecMulti == InitMulti /\ [][CallMulti]_vars

----------------------------------------------------------------------------
(* The claims *)

Square4 == << <<0, 0>>, <<4, 0>>, <<4, 4>>, <<0, 4>> >>
NoPolygonError == "SystemExit: No polygon geometry found in admin0.json"

\* the index after i in a ring of n vertices
Succ(i, n) == IF i = n THEN 1 ELSE i + 1

\* the edges of the ring the ray from (x, y) is counted against: the
\* endpoints straddle y and x lies left of the edge's intercept
CountedEdges(x, y, ring) ==
    {i \in 1..Len(ring) :
        LET a == ring[i]
            b == ring[Succ(i, Len(ring))]
            d == b[2] - a[2]
        IN /\ (a[2] > y) # (b[2] > y)
           /\ (x - a[1]) * d * d < (b[1] - a[1]) * (y - a[2]) * d}

\* C7: point_in_ring is false for every ring of fewer than 3 vertices, and
\* otherwise true exactly when an odd number of edges, the closing edge
\* included, straddle y with x left of the intercept; on the square
\* [(0,0),(4,0),(4,4),(0,4)], (2,2) is inside and (5,5) is not.
C7_RingParity ==
    gpc = "done" =>
        /\ result = (/\ Len(shape) >= 3
                     /\ Cardinality(CountedEdges(px, py, shape)) % 2 = 1)
        /\ (shape = Square4 /\ px = 2 /\ py = 2) => result
        /\ (shape = Square4 /\ px = 5 /\ py = 5) => ~result

C7_Witness ==
    gpc = "done" /\ shape = Square4 /\ px = 2 /\ py = 2 /\ result

\* (x, y) lies on the segment from a to b
OnSegment(x, y, a, b) ==
    /\ (b[1] - a[1]) * (y - a[2]) = (b[2] - a[2]) * (x - a[1])
    /\ (a[1] <= x /\ x <= b[1]) \/ (b[1] <= x /\ x <= a[1])
    /\ (a[2] <= y /\ y <= b[2]) \/ (b[2] <= y /\ y <= a[2])

OnBoundary(x, y, ring) ==
    \E i \in 1..Len(ring) : OnSegment(x, y, ring[i], ring[Succ(i, Len(ring))])

\* C6 as claimed: for a ring of at least 3 vertices no point on an edge or
\* a vertex of the ring is reported as contained.
C6_StrictlyWithin ==
    (gpc = "done" /\ Len(shape) >= 3 /\ OnBoundary(px, py, shape)) => ~result

XsOf(ring) == {ring[i][1] : i \in 1..Len(ring)}
YsOf(ring) == {ring[i][2] : i \in 1..Len(ring)}
MinOfSet(S) == CHOOSE m \in S : \A v \in S : m <= v
MaxOfSet(S) == CHOOSE m \in S : \A v \in S : m >= v

\* the ring walks round an axis-aligned rectangle, from any corner, either way
IsRectangle(ring) ==
    /\ Len(ring) = 4
    /\ Cardinality(XsOf(ring)) = 2
    /\ Cardinality(YsOf(ring)) = 2
    /\ Cardinality({ring[i] : i \in 1..4}) = 4
    /\ \A i \in 1..4 :
          (ring[i][1] = ring[Succ(i, 4)][1]) # (ring[i][2] = ring[Succ(i, 4)][2])

\* C6 amended: an axis-aligned rectangle is treated as half-open: a point is
\* contained exactly when min x <= x < max x and min y <= y < max y, so the
\* points of the left and bottom edges are kept and those of the right and
\* top edges are not; on the square [(0,0),(4,0),(4,4),(0,4)], (0,2) and
\* (2,0) are kept, (4,2) and (2,4) are not.
C6_HalfOpenRectangle ==
    (gpc = "done" /\ IsRectangle(shape)) =>
        /\ result = (/\ MinOfSet(XsOf(shape)) <= px
                     /\ px < MaxOfSet(XsOf(shape))
                     /\ MinOfSet(YsOf(shape)) <= py
                     /\ py < MaxOfSet(YsOf(shape)))
        /\ (shape = Square4 /\ px = 0 /\ py = 2) => result
        /\ (shape = Square4 /\ px = 2 /\ py = 0) => result
        /\ (shape = Square4 /\ px = 4 /\ py = 2) => ~result
        /\ (shape = Square4 /\ px = 2 /\ py = 4) => ~result

C6_Witness ==
    gpc = "done" /\ shape = Square4 /\ px = 0 /\ py = 2 /\ result

\* C1: point_in_polygon is true exactly when the polygon has a ring, the
\* point is in ring 0 and in none of the later rings; with the exterior
\* [(0,0),(10,0),(10,10),(0,10)] and the hole [(4,4),(6,4),(6,6),(4,6)],
\* (5,5) is outside and (1,1), (5,9) are inside.
C1_ExteriorMinusHoles ==
    gpc = "done" =>
        /\ result = (/\ Len(shape) >= 1
                     /\ point_in_ring(px, py, shape[1])
                     /\ \A i \in 2..Len(shape) : ~point_in_ring(px, py, shape[i]))
        /\ Len(shape) = 0 => ~result
        /\ (shape = <<Outer, Hole>> /\ px = 5 /\ py = 5) => ~result
        /\ (shape = <<Outer, Hole>> /\ px = 1 /\ py = 1) => result
        /\ (shape = <<Outer, Hole>> /\ px = 5 /\ py = 9) => result

C1_Witness ==
    gpc = "done" /\ shape = <<Outer, Hole>> /\ px = 5 /\ py = 5 /\ ~result

\* the rearrangements of a sequence
Rearrangements(s) ==
    {[i \in 1..Len(s) |-> s[f[i]]] :
        f \in {g \in [1..Len(s) -> 1..Len(s)] :
                  \A i, j \in 1..Len(s) : i # j => g[i] # g[j]}}

\* C2: point_in_multipolygon is true exactly when point_in_polygon is true
\* of at least one polygon (of none for the empty list), also when it is
\* true of two, and every reordering of the list gives the same answer.
C2_AnyPolygon ==
    gpc = "done" =>
        /\ result = (\E i \in 1..Len(shape) : point_in_polygon(px, py, shape[i]))
        /\ Len(shape) = 0 => ~result
        /\ \A m \in Rearrangements(shape) :
               point_in_multipolygon(px, py, m) = result

C2_Witness ==
    /\ gpc = "done"
    /\ result
    /\ Cardinality({i \in 1..Len(shape) : point_in_polygon(px, py, shape[i])}) = 2
    /\ Len(shape) = 3

\* an event carries a longitude and a latitude
WellFormed(f) ==
    f.hasGeometry /\ f.hasCoordinates /\ Len(f.coordinates) >= 2

\* the event has a (lon, lat) and the boundary contains it
Contained(f) ==
    /\ WellFormed(f)
    /\ point_in_multipolygon(f.coordinates[1], f.coordinates[2], polygons)

\* C3: after the pass the kept events are exactly the contained candidates,
\* in their original order and once each; bboxCount is the number of
\* candidates fetched, count the number kept, and count <= bboxCount.
C3_StableFilter ==
    /\ pc = "filter" =>
          filtered = SelectSeq(SubSeq(all_features, 1, idx), Contained)
    /\ pc = "done" =>
          /\ out.features = SelectSeq(all_features, Contained)
          /\ out.bboxCount = Len(all_features)
          /\ out.bboxCount = Len(source)
          /\ out.count = Len(out.features)
          /\ out.count <= out.bboxCount

C3_Witness ==
    /\ pc = "done"
    /\ out.count = 2
    /\ out.bboxCount = 3
    /\ out.features[1].id < out.features[2].id
    /\ ~Contained(all_features[1])

\* the document yields no polygon: it has no Polygon feature, and its
\* MultiPolygon features hold no polygon
YieldsNoPolygon(features) ==
    \A i \in 1..Len(features) :
        /\ features[i].type # "Polygon"
        /\ features[i].type = "MultiPolygon" => Len(features[i].coordinates) = 0

RingSet(ring) == {ring[v] : v \in 1..Len(ring)}
PolySet(poly) == UNION {RingSet(poly[r]) : r \in 1..Len(poly)}
VerticesOf(features) ==
    UNION {IF features[i].type = "Polygon"
           THEN PolySet(features[i].coordinates)
           ELSE IF features[i].type = "MultiPolygon"
           THEN UNION {PolySet(features[i].coordinates[p]) :
                          p \in 1..Len(features[i].coordinates)}
           ELSE {} : i \in 1..Len(features)}

\* C5 as claimed: a non-empty polygon list with no vertex at all fails like
\* the empty list, with the 'no polygon geometry found' failure.
C5_ZeroVerticesSameFailure ==
    (/\ exists
     /\ pc \notin {"load", "bbox"}
     /\ Len(polygons) > 0
     /\ VerticesOf(doc) = {}) => error = NoPolygonError

\* C8: when the boundary has a vertex, the bounding box is the least and
\* greatest x and y over every vertex of every ring, exterior or hole, of
\* every polygon of every Polygon and MultiPolygon feature: every vertex is
\* inside the box and each bound is attained.
C8_BBoxIsEnvelope ==
    (exists /\ pc \notin {"load", "bbox"} /\ VerticesOf(doc) # {}) =>
        /\ pc # "failed"
        /\ Len(bbox) = 4
        /\ \A v \in VerticesOf(doc) :
              /\ bbox[1] <= v[1] /\ v[1] <= bbox[2]
              /\ bbox[3] <= v[2] /\ v[2] <= bbox[4]
        /\ \E v \in VerticesOf(doc) : v[1] = bbox[1]
        /\ \E v \in VerticesOf(doc) : v[1] = bbox[2]
        /\ \E v \in VerticesOf(doc) : v[2] = bbox[3]
        /\ \E v \in VerticesOf(doc) : v[2] = bbox[4]

C8_Witness ==
    /\ pc = "fetch"
    /\ Len(doc) = 2
    /\ doc[1].type = "MultiPolygon"
    /\ Len(doc[2].coordinates) = 2
    /\ bbox = <<4, 24, -3, 12>>

\* C9: an event with fewer than 2 coordinates (no geometry, no coordinates,
\* an empty or one-element list) raises nothing and does not stop the pass:
\* it is never kept, the events after it are still evaluated, and it is
\* counted in bboxCount but not in count.
C9_MalformedSkipped ==
    /\ pc \in {"filter", "done"} =>
          /\ error = ""
          /\ \A k \in 1..Len(filtered) : WellFormed(filtered[k])
    /\ pc = "done" =>
          /\ idx = Len(all_features)
          /\ out.bboxCount = Len(all_features)
          /\ out.count =
                Cardinality({j \in 1..Len(all_features) : Contained(all_features[j])})
          /\ \A j \in 1..Len(all_features) :
                Contained(all_features[j]) =>
                    \E k \in 1..Len(out.features) :
                        out.features[k].id = all_features[j].id

C9_Witness ==
    /\ pc = "done"
    /\ Len(all_features) = 3
    /\ ~WellFormed(all_features[1])
    /\ ~WellFormed(all_features[2])
    /\ out.count = 1
    /\ out.features[1].id = 3
    /\ out.bboxCount = 3

C10_Pagination ==
    /\ \A k \in 1..Len(requests) : requests[k] = 1 + (k - 1) * limit
    /\ pc = "fetch" =>
          /\ offset = 1 + Len(requests) * limit
          /\ Len(requests) * limit <= Len(source)
          /\ all_features = SubSeq(source, 1, Len(requests) * limit)
          /\ idx = 0
          /\ Len(filtered) = 0
          /\ ~written
    /\ pc \in {"filter", "done"} =>
          /\ Len(requests) = (Len(source) \div limit) + 1
          /\ all_features = source
    /\ pc \in {"load", "bbox", "failed"} => Len(requests) = 0

\* C10: request k (from 0) carries offset 1 + k * limit, the batches are
\* appended in request order, the loop stops right after the first batch
\* shorter than limit, so with N events served consistently it ends after
\* floor(N / limit) + 1 requests holding the N events once each in source
\* order; the filter and the output come only after the loop; and the run
\* does come to its end.
C10_FetchLoop ==
    []C10_Pagination /\ <>(pc \in {"done", "failed"})

C10_Witness ==
    /\ pc = "done"
    /\ Len(source) = 6
    /\ Len(requests) = 4
    /\ requests[4] = 7
    /\ all_features = source
    /\ out.bboxCount = 6

====
